---- MODULE Spec2Model ----
(***************************************************************************)
(* Model of p21_print.py: the serial command/response layer of the P21     *)
(* label printer tool.  Byte strings (Python bytes) are sequences of       *)
(* numbers in 0..255; text (Python str) is a sequence of code points.      *)
(* A Python call either returns a value or raises an exception.            *)
(***************************************************************************)
EXTENDS Integers, Sequences, FiniteSets, TLC

VARIABLES
    fn,        \* the function a unit run calls ("none" in a run of main)
    arg,       \* its arguments
    ret,       \* its outcome: pending, a returned value or a raised exception
    args,      \* main: the parsed command line
    pc,        \* main: the position in main()
    frame,     \* main: the transport call in progress and its position
    held,      \* main: the calls whose serial handle is open
    response,  \* main: what the last transport call returned
    stdout,    \* main: the lines printed so far
    log        \* main: the operations performed on the serial device

vars == <<fn, arg, ret, args, pc, frame, held, response, stdout, log>>
unitVars == <<fn, arg, ret>>
mainVars == <<args, pc, frame, held, response, stdout, log>>

-----------------------------------------------------------------------------
(* Python values *)

None == [t |-> "None", v |-> <<>>]
Bytes(b) == [t |-> "bytes", v |-> b]

Return(v) == [kind |-> "return", value |-> v]
Raise(e) == [kind |-> "raise", value |-> e]
Pending == [kind |-> "pending", value |-> <<>>]

\* s[start:stop] of Python: negative indices count from the end, and both
\* ends are clamped to the sequence.
PyIndex(n, i) ==
    IF i < 0 THEN (IF n + i < 0 THEN 0 ELSE n + i)
    ELSE (IF i > n THEN n ELSE i)

PySlice(s, start, stop) ==
    LET lo == PyIndex(Len(s), start)
        hi == PyIndex(Len(s), stop)
    IN  IF lo >= hi THEN <<>> ELSE SubSeq(s, lo + 1, hi)

\* bytes.startswith
StartsWith(s, p) == Len(p) <= Len(s) /\ SubSeq(s, 1, Len(p)) = p

\* str.encode(): UTF-8, one byte below 128 and two bytes below 2048.
EncodeChar(c) ==
    IF c < 128 THEN <<c>> ELSE <<192 + (c \div 64), 128 + (c % 64)>>

\* the encodings of the characters, one after the other (the text is halved
\* to keep the evaluation shallow)
RECURSIVE Encode(_)
Encode(str) ==
    IF str = <<>> THEN <<>>
    ELSE IF Len(str) = 1 THEN EncodeChar(str[1])
    ELSE LET half == Len(str) \div 2
         IN  Encode(SubSeq(str, 1, half)) \o Encode(SubSeq(str, half + 1, Len(str)))

\* str(n) of an integer: its decimal digits, with a sign when negative.
RECURSIVE Digits(_)
Digits(n) ==
    IF n < 10 THEN <<48 + n>> ELSE Digits(n \div 10) \o <<48 + (n % 10)>>

IntToStr(n) == IF n < 0 THEN <<45>> \o Digits(-n) ELSE Digits(n)

\* int(s) of a text: the decimal value, ValueError when s is empty or holds
\* anything but decimal digits.
IsDecimal(str) == str # <<>> /\ \A i \in 1..Len(str) : str[i] \in 48..57

RECURSIVE DecimalValue(_)
DecimalValue(str) ==
    IF str = <<>> THEN 0
    ELSE 10 * DecimalValue(SubSeq(str, 1, Len(str) - 1)) + (str[Len(str)] - 48)

PyInt(str) ==
    IF IsDecimal(str) THEN Return(DecimalValue(str)) ELSE Raise("ValueError")

\* bytes.hex(): two lower-case hexadecimal digits per byte.
HexDigit(d) == IF d < 10 THEN 48 + d ELSE 87 + d

RECURSIVE Hex(_)
Hex(b) ==
    IF b = <<>> THEN <<>>
    ELSE <<HexDigit(Head(b) \div 16), HexDigit(Head(b) % 16)>> \o Hex(Tail(b))

\* bytes.ljust(width, fill): pads on the right up to a total length of width,
\* and leaves a value that is already that long as it is.
Ljust(b, width, fill) ==
    IF Len(b) >= width THEN b
    ELSE b \o [i \in 1..(width - Len(b)) |-> fill]

-----------------------------------------------------------------------------
(* Protocol text *)

CRLF == <<13, 10>>

\* "CONFIG " and "BATTERY ", the response prefixes
PrefixConfig == <<67, 79, 78, 70, 73, 71, 32>>
PrefixBattery == <<66, 65, 84, 84, 69, 82, 89, 32>>
\* "CONFIG?" and "BATTERY?", the queries
QueryConfig == <<67, 79, 78, 70, 73, 71, 63>>
QueryBattery == <<66, 65, 84, 84, 69, 82, 89, 63>>

ConfigLen == 10
BatteryLen == 2
RasterBytes == 3408
WhiteByte == 255

-----------------------------------------------------------------------------
(* clean_serial_response *)

clean_serial_response_and(resp, prefix, expected_len) ==
    IF resp.t = "None" THEN Raise("TypeError")
    ELSE LET cleaned_response == PySlice(resp.v, Len(prefix), -2)
         IN  IF /\ ~StartsWith(resp.v, Encode(prefix))
                /\ Len(cleaned_response) # expected_len
             THEN Raise("ValueError")
             ELSE Return(cleaned_response)

clean_serial_response(resp, prefix, expected_len) ==
    IF resp.t = "None" THEN Raise("TypeError")
    ELSE LET cleaned_response == PySlice(resp.v, Len(prefix), -2)
         IN  IF \/ ~StartsWith(resp.v, Encode(prefix))
                \/ Len(cleaned_response) # expected_len
             THEN Raise("ValueError")
             ELSE Return(cleaned_response)

-----------------------------------------------------------------------------
(* load_image: the image after grayscale, rotation, thumbnail and *)
(* dithering is w x h one-bit pixels, w <= 96, w <= h <= 284.     *)

BoxWidth == 96
BoxHeight == 284

RowBytes(w) == (w + 7) \div 8

\* One byte of a row of Image.tobytes() in mode "1": eight pixels, the first
\* in the top bit; the bits past the row's end are 0.  Every pixel has the
\* colour given (1 white, 0 black).
RowByte(w, j, colour) ==
    LET used == IF 8 * j <= w THEN 8 ELSE w - 8 * (j - 1)
    IN  IF colour = 0 THEN 0 ELSE 256 - 2 ^ (8 - used)

tobytes(image) ==
    [i \in 1..(RowBytes(image.w) * image.h) |->
        RowByte(image.w, ((i - 1) % RowBytes(image.w)) + 1, image.colour)]

load_image(image) ==
    LET bitdata == tobytes(image)
    IN  IF Len(bitdata) < RasterBytes
        THEN Ljust(bitdata, RasterBytes - Len(bitdata), WhiteByte)
        ELSE bitdata

-----------------------------------------------------------------------------
(* build_print_command *)

\* the text of the f-string up to {density}: each line of the literal ends
\* with the escapes \r\n and then with the line break of the literal itself
CommandHead ==
    <<27, 33, 111, 13, 10, 10,
      32, 32, 32, 83, 73, 90, 69, 32, 49, 52, 46, 48, 32, 109, 109, 44,
      52, 48, 46, 48, 32, 109, 109, 13, 10, 10,
      71, 65, 80, 32, 53, 46, 48, 32, 109, 109, 44, 48, 32, 109, 109, 13, 10, 10,
      68, 73, 82, 69, 67, 84, 73, 79, 78, 32, 49, 44, 49, 13, 10, 10,
      68, 69, 78, 83, 73, 84, 89, 32>>

\* from {density} to the raster
CommandBitmap ==
    <<13, 10, 10, 67, 76, 83, 13, 10, 10,
      66, 73, 84, 77, 65, 80, 32, 48, 44, 48, 44, 49, 50, 44, 50, 56, 52, 44, 49, 44>>

\* from the raster to {copies}, and after it
CommandPrint == <<13, 10, 10, 80, 82, 73, 78, 84, 32>>
CommandEnd == <<13, 10>>

build_print_command(imagedata, density, copies) ==
    LET serial_data == Encode(CommandHead \o IntToStr(density) \o CommandBitmap)
    IN  (serial_data \o imagedata)
            \o Encode(CommandPrint \o IntToStr(copies) \o CommandEnd)

-----------------------------------------------------------------------------
(* struct.unpack *)

\* ">hBBBBBBB?": a signed 16-bit big-endian integer, seven unsigned bytes and
\* a boolean (any non-zero byte is True); struct.error unless 10 bytes.
Int16(hi, lo) ==
    LET u == 256 * hi + lo IN IF u >= 32768 THEN u - 65536 ELSE u

unpack_config(b) ==
    IF Len(b) # 10 THEN Raise("struct.error")
    ELSE Return(<<Int16(b[1], b[2]), b[3], b[4], b[5], b[6], b[7], b[8], b[9],
                  b[10] # 0>>)

\* ">c?": one byte as a bytes value of length 1, and a boolean.
unpack_battery(b) ==
    IF Len(b) # 2 THEN Raise("struct.error")
    ELSE Return(<<SubSeq(b, 1, 1), b[2] # 0>>)

-----------------------------------------------------------------------------
(* DeviceConfig *)

\* The timeout_setting is an integer or None.
NoTimeout == [t |-> "None", v |-> 0]
Minutes(n) == [t |-> "int", v |-> n]

mapTimeoutValue_default(byteValue) ==
    CASE byteValue = 1 -> Minutes(15)
      [] byteValue = 2 -> Minutes(30)
      [] byteValue = 3 -> Minutes(60)
      [] OTHER -> Minutes(0)

\* match without a default case: the method falls off its end, returning None
mapTimeoutValue(byteValue) ==
    CASE byteValue = 0 -> Minutes(0)
      [] byteValue = 1 -> Minutes(15)
      [] byteValue = 2 -> Minutes(30)
      [] byteValue = 3 -> Minutes(60)
      [] OTHER -> NoTimeout

\* TimeoutString.__str__
TimeoutString(timeout_setting) ==
    CASE timeout_setting = Minutes(0) -> "Never"
      [] timeout_setting = Minutes(15) -> "15 minutes"
      [] timeout_setting = Minutes(30) -> "30 minutes"
      [] timeout_setting = Minutes(60) -> "60 minutes"
      [] OTHER -> "Unknown"

\* the text f"{a}.{b}.{c}"
VersionText(a, b, c) ==
    IntToStr(a) \o <<46>> \o IntToStr(b) \o <<46>> \o IntToStr(c)

\* the position of the first "." of a text at or after i, Len + 1 if none
RECURSIVE NextDot(_, _)
NextDot(str, i) ==
    IF i > Len(str) \/ str[i] = 46 THEN i ELSE NextDot(str, i + 1)

\* the texts between the dots
RECURSIVE SplitDots(_, _)
SplitDots(str, i) ==
    LET d == NextDot(str, i)
    IN  IF d > Len(str) THEN <<SubSeq(str, i, Len(str))>>
        ELSE <<SubSeq(str, i, d - 1)>> \o SplitDots(str, d + 1)

\* packaging.version.Version of a text of dotted decimal numbers: its release
\* tuple; InvalidVersion for anything else.
Version(str) ==
    LET parts == SplitDots(str, 1)
    IN  IF \A k \in 1..Len(parts) : IsDecimal(parts[k])
        THEN Return([k \in 1..Len(parts) |-> DecimalValue(parts[k])])
        ELSE Raise("InvalidVersion")

DeviceConfig(data) ==
    LET hw == Version(VersionText(data[2], data[3], data[4]))
        fw == Version(VersionText(data[5], data[6], data[7]))
    IN  IF hw.kind = "raise" THEN hw
        ELSE IF fw.kind = "raise" THEN fw
        ELSE Return([dpi_resolution |-> data[1],
                     hardware_version |-> hw.value,
                     second_firmware_version |-> fw.value,
                     timeout_setting |-> mapTimeoutValue(data[8]),
                     beep_setting |-> data[9]])

\* get_config from the value get_data returned
get_config(resp) ==
    LET configdata == clean_serial_response(resp, PrefixConfig, ConfigLen)
    IN  IF configdata.kind = "raise" THEN configdata
        ELSE LET unpacked_data == unpack_config(configdata.value)
             IN  IF unpacked_data.kind = "raise" THEN unpacked_data
                 ELSE DeviceConfig(unpacked_data.value)

-----------------------------------------------------------------------------
(* BatteryData *)

BatteryData_ord(data) ==
    Return([battery_level |-> data[1][1], charging |-> data[2]])

BatteryData(data) ==
    LET level == PyInt(Hex(data[1]))
    IN  IF level.kind = "raise" THEN level
        ELSE Return([battery_level |-> level.value, charging |-> data[2]])

\* get_battery from the value get_data returned
get_battery(resp) ==
    LET configdata == clean_serial_response(resp, PrefixBattery, BatteryLen)
    IN  IF configdata.kind = "raise" THEN configdata
        ELSE LET unpacked_data == unpack_battery(configdata.value)
             IN  IF unpacked_data.kind = "raise" THEN unpacked_data
                 ELSE BatteryData(unpacked_data.value)

-----------------------------------------------------------------------------
(* Unit runs: one call of one function on arguments drawn from bounded     *)
(* sets.  The variables of main stay as they are before main starts.       *)

NoArgs == [image |-> FALSE, config |-> FALSE, battery |-> FALSE]
NoFrame ==
    [fn |-> "none", cmd |-> "none", at |-> "none", id |-> 0,
     data |-> <<>>, line |-> <<>>]

MainIdle ==
    /\ args = NoArgs
    /\ pc = "idle"
    /\ frame = NoFrame
    /\ held = {}
    /\ response = None
    /\ stdout = <<>>
    /\ log = <<>>

\* the longest payload of a response in a unit run of clean_serial_response
MaxPayload == 12

\* n bytes counting up from seed + 1
Counting(n, seed) == [i \in 1..n |-> (seed + i) % 256]

\* what may stand where the prefix is expected: the prefix, the other
\* query's prefix, the prefix with its last byte changed or missing, nothing
Fronts(prefix) ==
    {prefix, PrefixConfig, PrefixBattery,
     SubSeq(prefix, 1, Len(prefix) - 1) \o <<63>>,
     SubSeq(prefix, 1, Len(prefix) - 1),
     <<>>}

Terminators == {CRLF, <<0, 0>>, <<10>>, <<>>}

\* the two calls of clean_serial_response the program makes
FrameCalls == {<<PrefixConfig, ConfigLen>>, <<PrefixBattery, BatteryLen>>}

FrameResponses(prefix) ==
    {None} \cup
    {Bytes(f \o Counting(n, seed) \o t) :
        f \in Fronts(prefix), n \in 0..MaxPayload, seed \in {0, 9},
        t \in Terminators}

InitFrame ==
    /\ fn = "clean_serial_response"
    /\ \E c \in FrameCalls : \E r \in FrameResponses(c[1]) :
          arg = [response |-> r, prefix |-> c[1], expected_len |-> c[2]]
    /\ ret = Pending
    /\ MainIdle

CallCleanSerialResponse ==
    /\ fn = "clean_serial_response"
    /\ ret.kind = "pending"
    /\ ret' = clean_serial_response(arg.response, arg.prefix, arg.expected_len)
    /\ UNCHANGED <<fn, arg, mainVars>>

NextFrame == CallCleanSerialResponse
SpecFrame == InitFrame /\ [][NextFrame]_vars

\* the images of a unit run of load_image, as they are after the thumbnail
ImageWidths == {1, 8, 9, 50, BoxWidth}
ImageHeights == {1, 2, 9, 50, 96, 142, 143, 200, 283, BoxHeight}

Images ==
    {[w |-> w, h |-> h, colour |-> c] :
        w \in ImageWidths, h \in ImageHeights, c \in {0, 1}}

InitImage ==
    /\ fn = "load_image"
    /\ \E image \in Images : image.w <= image.h /\ arg = image
    /\ ret = Pending
    /\ MainIdle

CallLoadImage ==
    /\ fn = "load_image"
    /\ ret.kind = "pending"
    /\ ret' = Return(load_image(arg))
    /\ UNCHANGED <<fn, arg, mainVars>>

NextImage == CallLoadImage
SpecImage == InitImage /\ [][NextImage]_vars

\* the arguments of a unit run of build_print_command
MaxDensity == 16
MaxCopies == 11
Rasters == {<<>>, <<0>>, <<255>>, <<13, 10>>, <<80, 82, 73, 78, 84, 32, 49>>}

InitBuild ==
    /\ fn = "build_print_command"
    /\ \E r \in Rasters, d \in -1..MaxDensity, c \in -1..MaxCopies :
          arg = [imagedata |-> r, density |-> d, copies |-> c]
    /\ ret = Pending
    /\ MainIdle

CallBuildPrintCommand ==
    /\ fn = "build_print_command"
    /\ ret.kind = "pending"
    /\ ret' = Return(build_print_command(arg.imagedata, arg.density, arg.copies))
    /\ UNCHANGED <<fn, arg, mainVars>>

NextBuild == CallBuildPrintCommand
SpecBuild == InitBuild /\ [][NextBuild]_vars

\* the CONFIG payloads of a unit run of get_config: every timeout byte with
\* the other fields of the documented example, and a choice of every field
DpiBytes == {<<0, 0>>, <<1, 44>>, <<0, 203>>, <<127, 255>>, <<128, 0>>, <<255, 255>>}
VersionBytes == {<<1, 2, 3>>, <<2, 5, 6>>, <<0, 0, 0>>, <<255, 10, 9>>}

ConfigPayloads ==
    {<<1, 44, 1, 2, 3, 2, 5, 6, t, 1>> : t \in 0..255} \cup
    {d \o hw \o fw \o <<t, b>> :
        d \in DpiBytes, hw \in VersionBytes, fw \in VersionBytes,
        t \in {0, 2, 4}, b \in {0, 1}}

InitConfig ==
    /\ fn = "get_config"
    /\ \E p \in ConfigPayloads, t \in {CRLF, <<0, 0>>} :
          arg = [response |-> Bytes(PrefixConfig \o p \o t), payload |-> p]
    /\ ret = Pending
    /\ MainIdle

CallGetConfig ==
    /\ fn = "get_config"
    /\ ret.kind = "pending"
    /\ ret' = get_config(arg.response)
    /\ UNCHANGED <<fn, arg, mainVars>>

NextConfig == CallGetConfig
SpecConfig == InitConfig /\ [][NextConfig]_vars

\* the BATTERY payloads of a unit run of get_battery: every level byte
InitBattery ==
    /\ fn = "get_battery"
    /\ \E b \in 0..255, c \in {0, 1} :
          arg = [response |-> Bytes(PrefixBattery \o <<b, c>> \o CRLF),
                 payload |-> <<b, c>>]
    /\ ret = Pending
    /\ MainIdle

CallGetBattery ==
    /\ fn = "get_battery"
    /\ ret.kind = "pending"
    /\ ret' = get_battery(arg.response)
    /\ UNCHANGED <<fn, arg, mainVars>>

NextBattery == CallGetBattery
SpecBattery == InitBattery /\ [][NextBattery]_vars

-----------------------------------------------------------------------------
(* A run of main.  The serial device is the environment: opening it, a     *)
(* write and a read may each raise SerialException, and what the printer   *)
(* sends back is any of a few byte streams.  The image file is taken to    *)
(* open; which device path a call opens does not matter here.              *)

\* Serial.readline with a timeout: the bytes up to and including the first
\* line feed, or all that arrived before the timeout when there is none
LineFeeds(stream) == {i \in 1..Len(stream) : stream[i] = 10}

readline(stream) ==
    IF LineFeeds(stream) = {} THEN stream
    ELSE SubSeq(stream, 1,
             CHOOSE k \in LineFeeds(stream) :
                 \A j \in LineFeeds(stream) : k <= j)

\* what the printer may send after a command: nothing at all, and
\* for CONFIG?  the documented example, an unknown timeout byte, a version
\*              byte that is a line feed, a dpi with the top bit set, the
\*              answer to the other query;
\* for BATTERY? 75% unplugged, 99% charging, a level byte with a hex digit;
\* for a print  an acknowledgement
Streams(cmd) ==
    CASE cmd = "CONFIG?" ->
            {<<>>,
             PrefixConfig \o <<1, 44, 1, 2, 3, 2, 5, 6, 2, 1>> \o CRLF,
             PrefixConfig \o <<1, 44, 1, 2, 3, 2, 5, 6, 4, 1>> \o CRLF,
             PrefixConfig \o <<1, 44, 1, 10, 3, 2, 5, 6, 2, 1>> \o CRLF,
             PrefixConfig \o <<128, 0, 1, 2, 3, 2, 5, 6, 2, 0>> \o CRLF,
             PrefixBattery \o <<117, 0>> \o CRLF}
      [] cmd = "BATTERY?" ->
            {<<>>,
             PrefixBattery \o <<117, 0>> \o CRLF,
             PrefixBattery \o <<153, 1>> \o CRLF,
             PrefixBattery \o <<122, 0>> \o CRLF}
      [] OTHER -> {<<>>, <<79, 75, 13, 10>>}

\* the command line: the image (as it is after the thumbnail), the options
Pictures ==
    {[w |-> 9, h |-> 50, colour |-> 0],
     [w |-> BoxWidth, h |-> BoxHeight, colour |-> 1]}

DefaultDensity == 15
DefaultCopies == 1

CommandLines ==
    {[image |-> i, picture |-> p, density |-> DefaultDensity,
      copies |-> DefaultCopies, config |-> c, battery |-> b] :
        i \in BOOLEAN, p \in Pictures, c \in BOOLEAN, b \in BOOLEAN}

Init ==
    /\ fn = "none"
    /\ arg = <<>>
    /\ ret = Pending
    /\ args \in CommandLines
    /\ pc = "image"
    /\ frame = NoFrame
    /\ held = {}
    /\ response = None
    /\ stdout = <<>>
    /\ log = <<>>

\* one operation on the serial device, as the log keeps it
Op(op, res, n) ==
    [id |-> frame.id, cmd |-> frame.cmd, op |-> op, res |-> res, n |-> n]

\* a call of send_print_command or get_data starts
Enter(f, cmd, data) ==
    [fn |-> f, cmd |-> cmd, at |-> "open", id |-> frame.id + 1,
     data |-> data, line |-> <<>>]

\* the caller goes on after the call
Leave == [frame EXCEPT !.fn = "none", !.at = "none", !.data = <<>>, !.line = <<>>]

\* Serial.close: releases the handle if it is open
SerialClose(h, id) == h \ {id}

\* Serial.__exit__, at the end of the with block however it is left
SerialExit_leak(h, id) == h

SerialExit(h, id) == SerialClose(h, id)

\* the log l after a close or an exit that leaves the handles h open: a
\* release is logged when the handle of the call was open and is no longer
Released(l, h) ==
    IF frame.id \in held /\ frame.id \notin h
    THEN Append(l, Op("release", "ok", 0)) ELSE l

\* the statement after a write that did not raise: ser.readline()
AfterWrite_skip(f) == IF f = "get_data" THEN "close" ELSE "print"

AfterWrite(f) == "readline"

\* serial.Serial(...) as ser
SerialOpen ==
    /\ frame.at = "open"
    /\ \/ /\ held' = held \cup {frame.id}
          /\ log' = Append(log, Op("open", "ok", 0))
          /\ frame' = [frame EXCEPT !.at = "write"]
       \/ /\ held' = held
          /\ log' = Append(log, Op("open", "error", 0))
          /\ frame' = [frame EXCEPT !.at = "except"]
    /\ UNCHANGED <<unitVars, args, pc, response, stdout>>

\* ser.write(...)
SerialWrite ==
    /\ frame.at = "write"
    /\ \/ /\ held' = held
          /\ log' = Append(log, Op("write", "ok", Len(frame.data)))
          /\ frame' = [frame EXCEPT !.at = AfterWrite(frame.fn)]
       \/ /\ held' = SerialExit(held, frame.id)
          /\ log' = Released(Append(log, Op("write", "error", 0)), held')
          /\ frame' = [frame EXCEPT !.at = "except"]
    /\ UNCHANGED <<unitVars, args, pc, response, stdout>>

\* ser.readline()
SerialReadline ==
    /\ frame.at = "readline"
    /\ \/ \E stream \in Streams(frame.cmd) :
            LET line == readline(stream)
                res == IF line # <<>> /\ line[Len(line)] = 10
                       THEN "ok" ELSE "timeout"
            IN  /\ held' = held
                /\ log' = Append(log, Op("readline", res, Len(line)))
                /\ frame' = [frame EXCEPT
                       !.at = IF frame.fn = "get_data" THEN "close" ELSE "print",
                       !.line = line]
       \/ /\ held' = SerialExit(held, frame.id)
          /\ log' = Released(Append(log, Op("readline", "error", 0)), held')
          /\ frame' = [frame EXCEPT !.at = "except"]
    /\ UNCHANGED <<unitVars, args, pc, response, stdout>>

\* get_data: ser.close()
GetDataClose ==
    /\ frame.at = "close"
    /\ held' = SerialClose(held, frame.id)
    /\ log' = Released(log, held')
    /\ frame' = [frame EXCEPT !.at = "return"]
    /\ UNCHANGED <<unitVars, args, pc, response, stdout>>

\* get_data: return response, leaving the with block
GetDataReturn ==
    /\ frame.at = "return"
    /\ held' = SerialExit(held, frame.id)
    /\ log' = Released(log, held')
    /\ response' = Bytes(frame.line)
    /\ frame' = [frame EXCEPT !.at = "returned"]
    /\ UNCHANGED <<unitVars, args, pc, stdout>>

\* send_print_command: print(in_hex), then the with block ends
SendPrintHex ==
    /\ frame.at = "print"
    /\ stdout' = Append(stdout, "acknowledgement in hex")
    /\ held' = SerialExit(held, frame.id)
    /\ log' = Released(log, held')
    /\ response' = None
    /\ frame' = [frame EXCEPT !.at = "returned"]
    /\ UNCHANGED <<unitVars, args, pc>>

\* except serial.SerialException: print the failure and return None
Except ==
    /\ frame.at = "except"
    /\ stdout' = Append(stdout,
           IF frame.fn = "get_data"
           THEN "Failed to get config via serial connection"
           ELSE "Failed to send data via serial connection")
    /\ response' = None
    /\ frame' = [frame EXCEPT !.at = "returned"]
    /\ UNCHANGED <<unitVars, args, pc, held, log>>

\* if args.image: load_image, build_print_command, send_print_command
MainImage ==
    /\ pc = "image"
    /\ \/ /\ args.image
          /\ frame' = Enter("send_print_command", "PRINT",
                 build_print_command(load_image(args.picture),
                                     args.density, args.copies))
          /\ pc' = "print_call"
       \/ /\ ~args.image
          /\ frame' = frame
          /\ pc' = "config"
    /\ UNCHANGED <<unitVars, args, held, response, stdout, log>>

MainImageDone ==
    /\ pc = "print_call"
    /\ frame.at = "returned"
    /\ frame' = Leave
    /\ pc' = "config"
    /\ UNCHANGED <<unitVars, args, held, response, stdout, log>>

\* if args.config: print the heading, get_config() calls get_data("CONFIG?")
MainConfig ==
    /\ pc = "config"
    /\ \/ /\ args.config
          /\ stdout' = Append(stdout, "Printer configuration:")
          /\ frame' = Enter("get_data", "CONFIG?", Encode(QueryConfig \o CRLF))
          /\ pc' = "config_call"
       \/ /\ ~args.config
          /\ stdout' = stdout
          /\ frame' = frame
          /\ pc' = "battery"
    /\ UNCHANGED <<unitVars, args, held, response, log>>

\* the rest of get_config and print(...): an exception it raises is caught
\* nowhere and ends the process with a traceback
MainConfigDone ==
    /\ pc = "config_call"
    /\ frame.at = "returned"
    /\ frame' = Leave
    /\ LET config == get_config(response)
       IN  \/ /\ config.kind = "return"
              /\ stdout' = Append(stdout, "DeviceConfig")
              /\ pc' = "battery"
           \/ /\ config.kind = "raise"
              /\ stdout' = Append(stdout, "Traceback")
              /\ pc' = "crashed"
    /\ UNCHANGED <<unitVars, args, held, response, log>>

\* if args.battery: print the heading, get_battery() calls get_data("BATTERY?")
MainBattery ==
    /\ pc = "battery"
    /\ \/ /\ args.battery
          /\ stdout' = Append(stdout, "Printer battery status:")
          /\ frame' = Enter("get_data", "BATTERY?", Encode(QueryBattery \o CRLF))
          /\ pc' = "battery_call"
       \/ /\ ~args.battery
          /\ stdout' = stdout
          /\ frame' = frame
          /\ pc' = "done"
    /\ UNCHANGED <<unitVars, args, held, response, log>>

\* the rest of get_battery and print(...)
MainBatteryDone ==
    /\ pc = "battery_call"
    /\ frame.at = "returned"
    /\ frame' = Leave
    /\ LET battery == get_battery(response)
       IN  \/ /\ battery.kind = "return"
              /\ stdout' = Append(stdout, "BatteryData")
              /\ pc' = "done"
           \/ /\ battery.kind = "raise"
              /\ stdout' = Append(stdout, "Traceback")
              /\ pc' = "crashed"
    /\ UNCHANGED <<unitVars, args, held, response, log>>

Next ==
    \/ MainImage
    \/ MainImageDone
    \/ MainConfig
    \/ MainConfigDone
    \/ MainBattery
    \/ MainBatteryDone
    \/ SerialOpen
    \/ SerialWrite
    \/ SerialReadline
    \/ GetDataClose
    \/ GetDataReturn
    \/ SendPrintHex
    \/ Except

Spec == Init /\ [][Next]_vars

-----------------------------------------------------------------------------
(* Properties *)

Called(f) == fn = f /\ ret.kind # "pending"

C2_PaddedToRasterBytes ==
    Called("load_image") =>
        LET packed == tobytes(arg)
        IN  /\ Len(ret.value) = 3408
            /\ SubSeq(ret.value, 1, Len(packed)) = packed
            /\ \A i \in (Len(packed) + 1)..3408 : ret.value[i] = 255

\* C5 (SpecBuild): build_print_command returns the documented byte stream:
\* every directive ended by CR LF and no other byte before, between or after
\* the directives.
DocumentedHead ==
    <<27, 33, 111, 13, 10,
      83, 73, 90, 69, 32, 49, 52, 46, 48, 32, 109, 109, 44,
      52, 48, 46, 48, 32, 109, 109, 13, 10,
      71, 65, 80, 32, 53, 46, 48, 32, 109, 109, 44, 48, 32, 109, 109, 13, 10,
      68, 73, 82, 69, 67, 84, 73, 79, 78, 32, 49, 44, 49, 13, 10,
      68, 69, 78, 83, 73, 84, 89, 32>>

DocumentedBitmap ==
    <<13, 10, 67, 76, 83, 13, 10,
      66, 73, 84, 77, 65, 80, 32, 48, 44, 48, 44, 49, 50, 44, 50, 56, 52, 44, 49, 44>>

DocumentedPrint == <<13, 10, 80, 82, 73, 78, 84, 32>>

C5_DocumentedStream ==
    Called("build_print_command") =>
        ret.value =
            DocumentedHead \o IntToStr(arg.density) \o DocumentedBitmap
                \o arg.imagedata
                \o DocumentedPrint \o IntToStr(arg.copies) \o CRLF

\* C6 (SpecConfig): framing then decoding a well-framed CONFIG response gives
\* the values packed in: the dpi is the unsigned value of the first two
\* bytes, the versions are the three bytes each, the beep the boolean.
C6_ConfigRoundTrip ==
    Called("get_config") =>
        LET p == arg.payload
        IN  /\ ret.kind = "return"
            /\ ret.value.dpi_resolution = 256 * p[1] + p[2]
            /\ ret.value.dpi_resolution >= 0
            /\ ret.value.hardware_version = <<p[3], p[4], p[5]>>
            /\ ret.value.second_firmware_version = <<p[6], p[7], p[8]>>
            /\ ret.value.beep_setting = (p[10] = 1)

\* C7 (SpecBattery): a level byte with a hexadecimal digit above 9 does not
\* make the construction of BatteryData raise.
C7_HexLevelDoesNotRaise ==
    Called("get_battery") =>
        LET b == arg.payload[1]
        IN  (b \div 16 > 9 \/ b % 16 > 9) => ret.kind = "return"

\* C8 (SpecBattery): a level byte whose two hexadecimal digits h and l are
\* both at most 9 decodes to 10 * h + l, which is in 0..99 and is not the
\* byte's own value unless h = 0.
C8_BatteryLevelIsHexAsDecimal ==
    Called("get_battery") =>
        LET b == arg.payload[1]
            h == b \div 16
            l == b % 16
        IN  (h <= 9 /\ l <= 9) =>
                /\ ret.kind = "return"
                /\ ret.value.battery_level = 10 * h + l
                /\ ret.value.battery_level \in 0..99
                /\ (h > 0 => ret.value.battery_level # b)

\* the byte 0x75 has been decoded to 75
C8_Witness ==
    /\ Called("get_battery")
    /\ arg.payload[1] = 117
    /\ ret.kind = "return"
    /\ ret.value.battery_level = 75

\* C9 (SpecConfig): the timeout byte 0, 1, 2, 3 decodes to 0, 15, 30, 60; any
\* other byte decodes to a value that is none of these four and that reads
\* "Unknown", and the other fields of the record are decoded all the same.
C9_TimeoutTableOrUnknown ==
    Called("get_config") =>
        LET p == arg.payload
            v == p[9]
        IN  /\ ret.kind = "return"
            /\ v = 0 => ret.value.timeout_setting = Minutes(0)
            /\ v = 1 => ret.value.timeout_setting = Minutes(15)
            /\ v = 2 => ret.value.timeout_setting = Minutes(30)
            /\ v = 3 => ret.value.timeout_setting = Minutes(60)
            /\ v \notin 0..3 =>
                  /\ ret.value.timeout_setting
                        \notin {Minutes(0), Minutes(15), Minutes(30), Minutes(60)}
                  /\ ret.value.timeout_setting.t = "None"
                  /\ TimeoutString(ret.value.timeout_setting) = "Unknown"
            /\ v \in 0..3 =>
                  TimeoutString(ret.value.timeout_setting) # "Unknown"
            /\ ret.value.hardware_version = <<p[3], p[4], p[5]>>
            /\ ret.value.second_firmware_version = <<p[6], p[7], p[8]>>
            /\ ret.value.beep_setting = (p[10] # 0)

\* the timeout byte 255 has been decoded, in a record with its other fields
C9_Witness ==
    /\ Called("get_config")
    /\ arg.payload[9] = 255
    /\ ret.kind = "return"
    /\ ret.value.timeout_setting = NoTimeout
    /\ ret.value.hardware_version = <<1, 2, 3>>

\* the operations call id performed on the serial device, in order
OpsOf(l, id) == SelectSeq(l, LAMBDA e : e.id = id)

\* call id failed at the transport: the device could not be opened, a write
\* or a read raised, or the read timed out with no data
TransportFailed(id) ==
    \E i \in DOMAIN log :
        /\ log[i].id = id
        /\ \/ log[i].res = "error"
           \/ log[i].op = "readline" /\ log[i].n = 0

Performed(cmd) == \E i \in DOMAIN log : log[i].cmd = cmd

\* the query cmd was made and failed at the transport
QueryFailed(cmd) ==
    \E i \in DOMAIN log : log[i].cmd = cmd /\ TransportFailed(log[i].id)

\* C3 (Spec): a CONFIG? or BATTERY? query that fails at the transport does
\* not end the process with an unhandled exception, and a battery query
\* requested after a failed config query is still performed.
C3_QueryFailureIsSurvived ==
    /\ pc = "crashed" => ~TransportFailed(frame.id)
    /\ (pc \in {"done", "crashed"} /\ args.battery /\ QueryFailed("CONFIG?"))
          => Performed("BATTERY?")

\* C4 (Spec): when a transport call has left its with block, by returning or
\* by an exception, its handle is released; none is held between calls or
\* when the program ends.
C4_HandleReleased ==
    /\ frame.at \in {"returned", "except", "none"} => held = {}
    /\ pc \in {"done", "crashed"} => held = {}

\* a call has ended in which the device was opened and the read raised
C4_Witness ==
    /\ frame.at = "returned"
    /\ \E i, j \in DOMAIN log :
          /\ log[i].id = frame.id /\ log[i].op = "open" /\ log[i].res = "ok"
          /\ log[j].id = frame.id /\ log[j].op = "readline"
          /\ log[j].res = "error"
    /\ stdout # <<>>
    /\ stdout[Len(stdout)] = "Failed to get config via serial connection"

\* the operations of one call, in the order the protocol asks for: open, one
\* write, one line read, release; a failed open ends it, and a failed write is
\* followed by the release alone
InProtocolOrder(ops) ==
    /\ Len(ops) <= 4
    /\ Len(ops) >= 1 => ops[1].op = "open"
    /\ Len(ops) >= 2 => ops[1].res = "ok" /\ ops[2].op = "write"
    /\ Len(ops) >= 3 =>
          \/ ops[2].res = "ok" /\ ops[3].op = "readline"
          \/ ops[2].res = "error" /\ ops[3].op = "release" /\ Len(ops) = 3
    /\ Len(ops) >= 4 => ops[4].op = "release"

CommandOrder(cmd) ==
    CASE cmd = "PRINT" -> 1 [] cmd = "CONFIG?" -> 2 [] cmd = "BATTERY?" -> 3
      [] OTHER -> 0

\* C10 (Spec): each transport call performs open, one write, one line read,
\* release in that order, with at most one open and one write; a handle is
\* never opened while another is held; the calls of a run come in the order
\* print, CONFIG?, BATTERY?; and every write is followed by the read of the
\* same call before any other write (a write that raised sent no command).
C10_OneCommandInFlight ==
    /\ \A id \in 1..(frame.id) : InProtocolOrder(OpsOf(log, id))
    /\ Cardinality(held) <= 1
    /\ \A i \in DOMAIN log :
          log[i].op = "open" =>
              \A j \in 1..(i - 1) :
                  (log[j].op = "open" /\ log[j].res = "ok") =>
                      \E k \in (j + 1)..(i - 1) :
                          log[k].op = "release" /\ log[k].id = log[j].id
    /\ \A i, j \in DOMAIN log :
          i < j => /\ log[i].id <= log[j].id
                   /\ CommandOrder(log[i].cmd) <= CommandOrder(log[j].cmd)
                   /\ (log[i].id = log[j].id <=> log[i].cmd = log[j].cmd)
    /\ \A i, j \in DOMAIN log :
          (i < j /\ log[i].op = "write" /\ log[i].res = "ok"
                 /\ log[j].op = "write") =>
              \E k \in (i + 1)..(j - 1) :
                  log[k].op = "readline" /\ log[k].id = log[i].id
    /\ \A i \in DOMAIN log :
          (/\ log[i].op = "write" /\ log[i].res = "ok"
           /\ (frame.id > log[i].id \/ frame.at \in {"returned", "none"})) =>
              \E k \in (i + 1)..Len(log) :
                  log[k].op = "readline" /\ log[k].id = log[i].id

\* a run has ended with the three calls made, each complete
C10_Witness ==
    /\ pc = "done"
    /\ frame.id = 3
    /\ Len(log) = 12
    /\ \A i \in DOMAIN log : log[i].res = "ok"

====
